---- MODULE Spec2Model ----
\* A model of auto_rig_glb (src/auto_rig_glb.py): import of a mesh, the
\* humanoid/quadruped classification of its vertices, the bone-by-bone
\* construction of the armature, skinning and export.
\*
\* Numbers.  The code computes in floats with the fractions 0.05, 0.1, 0.2,
\* 0.25, 0.3, 0.45, 0.5, 0.7 and 0.8.  The model takes vertex coordinates,
\* dimensions and the mesh location as integers (whole units) and keeps every
\* bone coordinate in hundredths of a unit, so that 0.05 * height is
\* 5 * height and the absolute offset 0.5 is 50.  Comparisons of the
\* classifier are cross-multiplied (a > 0.3 * b  is  10 * a > 3 * b).
\* Rounding of binary floats is not modelled.
EXTENDS Integers, Sequences, FiniteSets

VARIABLES
    pc,          \* position in auto_rig_glb
    verts,       \* line 48: world-coordinate vertices of the chosen mesh
    dimensions,  \* line 38: <<width, length, height>> of the mesh
    world_mat,   \* line 109: mesh_obj.matrix_world (a translation once rotation and scale are applied)
    min_z,       \* lines 51-54: ground level
    char_type,   \* line 82: "Humanoid" | "Quadruped", "None" before classification
    rig,         \* lines 86-88: the armature object exists
    mode,        \* lines 92, 208: "OBJECT" | "EDIT"
    bones,       \* arm.edit_bones, in creation order
    last,        \* the arguments of the latest create_bone call
    skinned,     \* line 216: parent_set(ARMATURE_AUTO) was invoked
    exported,    \* line 224: export_scene.fbx was invoked
    ret          \* the value auto_rig_glb returned, "pending" while it runs

vars == <<pc, verts, dimensions, world_mat, min_z, char_type, rig, mode,
          bones, last, skinned, exported, ret>>

\* ------------------------------------------------------------------ bounds

\* The largest number of vertices of an imported mesh.
MaxVerts == 5

\* The largest number of create_bone calls of the create_bone harness.
MaxCalls == 3

\* ------------------------------------------------------------------ inputs

\* Local vertex positions <<x, y, z>>: two sides and the centre plane at
\* ground level, one vertex per side just above the ground, two at the top.
Grid ==
    ({-1, 1} \X {0, 3, 10} \X {0})
        \cup {<<-1, 3, 1>>, <<1, 3, 1>>, <<0, 0, 0>>, <<0, 0, 20>>, <<0, 10, 20>>}

Meshes == {V \in SUBSET Grid : Cardinality(V) <= MaxVerts}

\* Locations of the mesh object (the translation left in matrix_world).
Locs == {<<0, 0, 0>>, <<1, 0, 0>>, <<0, 2, 1>>}

Max(S) == CHOOSE m \in S : \A s \in S : s <= m
Min(S) == CHOOSE m \in S : \A s \in S : m <= s
Range(S) == Max(S) - Min(S)

Xs(V) == {v[1] : v \in V}
Ys(V) == {v[2] : v \in V}
Zs(V) == {v[3] : v \in V}

\* mesh_obj.dimensions: the extents of the bounding box.  The box of a mesh
\* without vertices is Blender's choice (nothing, or the default box from
\* -1 to 1), so both are possible.
Dimensions(V) ==
    IF V = {} THEN {<<0, 0, 0>>, <<2, 2, 2>>}
    ELSE {<<Range(Xs(V)), Range(Ys(V)), Range(Zs(V))>>}

\* mesh_obj.matrix_world @ v.co
World(V, t) == {<<v[1] + t[1], v[2] + t[2], v[3] + t[3]>> : v \in V}

width == dimensions[1]
length == dimensions[2]
height == dimensions[3]

\* ---------------------------------------------------------- classification

\* lines 51-54: the lowest z, and 0.0 for a mesh without vertices
GroundLevelDefaultOne(V) == IF V # {} THEN Min(Zs(V)) ELSE 1
GroundLevel(V) == IF V # {} THEN Min(Zs(V)) ELSE 0

\* lines 56-57: v.z <= min_z + 0.05 * height
foot_verts(V, mz, h) == {v \in V : 100 * v[3] <= 100 * mz + 5 * h}

\* lines 59-60
left_foot_verts(F) == {v \in F : v[1] < 0}
right_foot_verts(F) == {v \in F : v[1] > 0}

\* lines 62-66
num_feet(L, R) ==
    IF L # {} THEN (IF R = {} THEN 1 ELSE 2)
    ELSE IF R # {} THEN 1 ELSE 0

\* line 75: y_range > 0.3 * total_y_range
SpreadLargeOrEqual(y_range, total_y_range) == 10 * y_range >= 3 * total_y_range
SpreadLarge(y_range, total_y_range) == 10 * y_range > 3 * total_y_range

\* lines 68-79
is_quadruped(V, mz, h) ==
    LET F == foot_verts(V, mz, h)
        L == left_foot_verts(F)
        R == right_foot_verts(F)
    IN  IF L # {} /\ R # {}
        THEN LET left_y_range == Range(Ys(L))
                 right_y_range == Range(Ys(R))
                 total_y_range == IF V # {} THEN Range(Ys(V)) ELSE 0
             IN  SpreadLarge(left_y_range, total_y_range)
                 /\ SpreadLarge(right_y_range, total_y_range)
        ELSE num_feet(L, R) >= 3

\* line 82
CharType(V, mz, h) == IF is_quadruped(V, mz, h) THEN "Quadruped" ELSE "Humanoid"

\* ---------------------------------------------------------------- geometry
\* Everything below is in hundredths of a unit.

Add(a, b) == <<a[1] + b[1], a[2] + b[2], a[3] + b[3]>>
Up(a, dz) == Add(a, <<0, 0, dz>>)

\* lines 111-115
min_bb == <<-50 * width, -50 * length, 100 * min_z>>
max_bb == <<50 * width, 50 * length, 100 * (height + min_z)>>
Translate(v) == Add(v, <<100 * world_mat[1], 100 * world_mat[2], 100 * world_mat[3]>>)
min_bb_world == Translate(min_bb)
max_bb_world == Translate(max_bb)

\* lines 117-122
pelvis_x == (min_bb_world[1] + max_bb_world[1]) \div 2
pelvis_y == (min_bb_world[2] + max_bb_world[2]) \div 2
pelvis_z == 100 * min_z + 70 * height
pelvis_pos == <<pelvis_x, pelvis_y, pelvis_z>>
head_pos == <<pelvis_x, pelvis_y, max_bb_world[3]>>

\* ------------------------------------------------------------- create_bone

Names(arm) == {arm[i].name : i \in 1..Len(arm)}

\* arm.edit_bones.new(name) never fails: Blender gives the new bone the first
\* free name, counting up the numeric suffix.
NextName(n) ==
    CASE n = "Spine" -> "Spine.001"
      [] n = "Spine.001" -> "Spine.002"
      [] n = "Spine.002" -> "Spine.003"
      [] n = "Spine.003" -> "Spine.004"
      [] n = "Head" -> "Head.001"
      [] n = "Head.001" -> "Head.002"
      [] n = "Head.002" -> "Head.003"
      [] OTHER -> "Head.004"

RECURSIVE UniqueName(_, _)
UniqueName(arm, n) == IF n \in Names(arm) THEN UniqueName(arm, NextName(n)) ELSE n

None == "None"

\* lines 96-105.  parent is the name of the parent bone, or None.
create_bone_unparented(arm, name, head, tail, parent) ==
    Append(arm, [name |-> UniqueName(arm, name), head |-> head, tail |-> tail,
                 parent |-> None])
create_bone(arm, name, head, tail, parent) ==
    Append(arm, [name |-> UniqueName(arm, name), head |-> head, tail |-> tail,
                 parent |-> IF parent # None THEN parent ELSE None])

Call(name, head, tail, parent) ==
    [name |-> name, head |-> head, tail |-> tail, parent |-> parent]

\* ------------------------------------------------------ the humanoid branch
\* The bones the code holds in local variables, by position in the creation
\* order (lines 127-163).

spine_base(arm) == arm[1]
spine_top(arm) == arm[2]
neck(arm) == arm[3]
left_arm(arm) == arm[5]
left_forearm(arm) == arm[6]
right_arm(arm) == arm[7]
right_forearm(arm) == arm[8]
left_thigh(arm) == arm[11]
right_thigh(arm) == arm[12]
left_shin(arm) == arm[13]
right_shin(arm) == arm[14]

\* lines 135-139
shoulder_offset_h == 50 * width
left_shoulder_pos_mirrored(arm) ==
    <<pelvis_x - shoulder_offset_h, neck(arm).tail[2], neck(arm).tail[3]>>
left_shoulder_pos(arm) ==
    <<pelvis_x + shoulder_offset_h, neck(arm).tail[2], neck(arm).tail[3]>>
right_shoulder_pos(arm) ==
    <<pelvis_x - shoulder_offset_h, neck(arm).tail[2], neck(arm).tail[3]>>

\* lines 150-154
hip_offset_h == 20 * width
left_hip_pos == <<pelvis_x + hip_offset_h, pelvis_pos[2], pelvis_pos[3]>>
right_hip_pos == <<pelvis_x - hip_offset_h, pelvis_pos[2], pelvis_pos[3]>>

\* The i-th create_bone call of the humanoid branch, lines 127-163.
HumanoidCall(i, arm) ==
    CASE i = 1 -> Call("Spine", pelvis_pos, Up(pelvis_pos, 30 * height), None)
      [] i = 2 -> Call("Spine.001", spine_base(arm).tail,
                       Up(spine_base(arm).tail, 30 * height), spine_base(arm).name)
      [] i = 3 -> Call("Spine.002", spine_top(arm).tail,
                       Up(spine_top(arm).tail, 20 * height), spine_top(arm).name)
      [] i = 4 -> Call("Head", neck(arm).tail, head_pos, neck(arm).name)
      [] i = 5 -> Call("upper_arm.L", left_shoulder_pos(arm),
                       Up(left_shoulder_pos(arm), -25 * height), spine_top(arm).name)
      [] i = 6 -> Call("lower_arm.L", left_arm(arm).tail,
                       Up(left_arm(arm).tail, -25 * height), left_arm(arm).name)
      [] i = 7 -> Call("upper_arm.R", right_shoulder_pos(arm),
                       Up(right_shoulder_pos(arm), -25 * height), spine_top(arm).name)
      [] i = 8 -> Call("lower_arm.R", right_arm(arm).tail,
                       Up(right_arm(arm).tail, -25 * height), right_arm(arm).name)
      [] i = 9 -> Call("hand.L", left_forearm(arm).tail,
                       Up(left_forearm(arm).tail, -10 * height), left_forearm(arm).name)
      [] i = 10 -> Call("hand.R", right_forearm(arm).tail,
                        Up(right_forearm(arm).tail, -10 * height), right_forearm(arm).name)
      [] i = 11 -> Call("thigh.L", left_hip_pos, Up(left_hip_pos, -45 * height),
                        spine_base(arm).name)
      [] i = 12 -> Call("thigh.R", right_hip_pos, Up(right_hip_pos, -45 * height),
                        spine_base(arm).name)
      [] i = 13 -> Call("shin.L", left_thigh(arm).tail,
                        <<left_thigh(arm).tail[1], left_thigh(arm).tail[2],
                          100 * min_z + 5 * height>>, left_thigh(arm).name)
      [] i = 14 -> Call("shin.R", right_thigh(arm).tail,
                        <<right_thigh(arm).tail[1], right_thigh(arm).tail[2],
                          100 * min_z + 5 * height>>, right_thigh(arm).name)
      [] i = 15 -> Call("foot.L", left_shin(arm).tail,
                        <<left_shin(arm).tail[1], left_shin(arm).tail[2] + 5 * length,
                          100 * min_z>>, left_shin(arm).name)
      [] i = 16 -> Call("foot.R", right_shin(arm).tail,
                        <<right_shin(arm).tail[1], right_shin(arm).tail[2] + 5 * length,
                          100 * min_z>>, right_shin(arm).name)

\* ----------------------------------------------------- the quadruped branch
\* lines 167-200, the bones again by position in the creation order.

spine(arm) == arm[1]
neck_bone(arm) == arm[2]
upper_front_L(arm) == arm[4]
upper_front_R(arm) == arm[5]
lower_front_L(arm) == arm[6]
lower_front_R(arm) == arm[7]
upper_hind_L(arm) == arm[10]
upper_hind_R(arm) == arm[11]
lower_hind_L(arm) == arm[12]
lower_hind_R(arm) == arm[13]

\* lines 167-168
hip_center == <<pelvis_x, pelvis_y - 25 * length, pelvis_pos[3]>>
shoulder_center == <<pelvis_x, pelvis_y + 25 * length, pelvis_pos[3]>>

\* lines 171-172: head_pos.z * 0.8
neck_base == Up(shoulder_center, 10 * height)
neck_top == <<pelvis_x, pelvis_y + 25 * length, (head_pos[3] * 80) \div 100>>

\* line 175: head_pos is assigned again, 0.5 ahead of the pelvis in y
head_pos_q == <<pelvis_x, pelvis_y + 50, max_bb_world[3]>>

\* lines 179-183, 193-194
shoulder_offset_q == 30 * width
hip_offset_q == 30 * width
front_shoulder_L == Add(shoulder_center, <<shoulder_offset_q, 0, 0>>)
front_shoulder_R == Add(shoulder_center, <<-shoulder_offset_q, 0, 0>>)
back_hip_L == Add(hip_center, <<hip_offset_q, 0, 0>>)
back_hip_R == Add(hip_center, <<-hip_offset_q, 0, 0>>)

\* lines 202-203, commented out in the code
tail_base == Add(hip_center, <<0, -10 * length, pelvis_pos[3]>>)
tail_end == Add(hip_center, <<0, -30 * length, pelvis_pos[3]>>)

Ground(b) == <<b.tail[1], b.tail[2], 100 * min_z>>
AboveGround(b) == <<b.tail[1], b.tail[2], 100 * min_z + 5 * height>>

\* The i-th create_bone call of the quadruped branch, lines 169-200; the
\* 16th is the disabled tail of line 204.
QuadrupedCall(i, arm) ==
    CASE i = 1 -> Call("Spine", hip_center, shoulder_center, None)
      [] i = 2 -> Call("Neck", neck_base, neck_top, spine(arm).name)
      [] i = 3 -> Call("Head", neck_top, head_pos_q, neck_bone(arm).name)
      [] i = 4 -> Call("upper_arm.L", front_shoulder_L,
                       Up(front_shoulder_L, -50 * height), spine(arm).name)
      [] i = 5 -> Call("upper_arm.R", front_shoulder_R,
                       Up(front_shoulder_R, -50 * height), spine(arm).name)
      [] i = 6 -> Call("lower_arm.L", upper_front_L(arm).tail,
                       AboveGround(upper_front_L(arm)), upper_front_L(arm).name)
      [] i = 7 -> Call("lower_arm.R", upper_front_R(arm).tail,
                       AboveGround(upper_front_R(arm)), upper_front_R(arm).name)
      [] i = 8 -> Call("front_foot.L", lower_front_L(arm).tail,
                       Ground(lower_front_L(arm)), lower_front_L(arm).name)
      [] i = 9 -> Call("front_foot.R", lower_front_R(arm).tail,
                       Ground(lower_front_R(arm)), lower_front_R(arm).name)
      [] i = 10 -> Call("thigh.L", back_hip_L, Up(back_hip_L, -50 * height),
                        spine(arm).name)
      [] i = 11 -> Call("thigh.R", back_hip_R, Up(back_hip_R, -50 * height),
                        spine(arm).name)
      [] i = 12 -> Call("shin.L", upper_hind_L(arm).tail,
                        AboveGround(upper_hind_L(arm)), upper_hind_L(arm).name)
      [] i = 13 -> Call("shin.R", upper_hind_R(arm).tail,
                        AboveGround(upper_hind_R(arm)), upper_hind_R(arm).name)
      [] i = 14 -> Call("hind_foot.L", lower_hind_L(arm).tail,
                        Ground(lower_hind_L(arm)), lower_hind_L(arm).name)
      [] i = 15 -> Call("hind_foot.R", lower_hind_R(arm).tail,
                        Ground(lower_hind_R(arm)), lower_hind_R(arm).name)
      [] i = 16 -> Call("Tail", tail_base, tail_end, spine(arm).name)

\* The number of create_bone calls of a branch: lines 127-163 and 169-200.
NumCallsWithTail(ct) == 16
NumCalls(ct) == IF ct = "Quadruped" THEN 15 ELSE 16

\* The end of bone creation (line 205) is reached after the last call.
BuildDoneEarly(ct, arm) == Len(arm) >= 1
BuildDone(ct, arm) == Len(arm) = NumCalls(ct)

BranchCall(ct, i, arm) ==
    IF ct = "Quadruped" THEN QuadrupedCall(i, arm) ELSE HumanoidCall(i, arm)

\* ------------------------------------------------------------- auto_rig_glb

NoCall == [name |-> None, dup |-> FALSE, len |-> 0]

Init ==
    /\ pc = "start"
    /\ verts = {}
    /\ dimensions = <<0, 0, 0>>
    /\ world_mat = <<0, 0, 0>>
    /\ min_z = 0
    /\ char_type = None
    /\ rig = FALSE
    /\ mode = "OBJECT"
    /\ bones = <<>>
    /\ last = NoCall
    /\ skinned = FALSE
    /\ exported = FALSE
    /\ ret = "pending"

\* lines 14-20: the import raises, is caught, and None is returned
ImportFails ==
    /\ pc = "start"
    /\ pc' = "done"
    /\ ret' = None
    /\ UNCHANGED <<verts, dimensions, world_mat, min_z, char_type, rig, mode,
                   bones, last, skinned, exported>>

\* lines 14-17: the import returns
ImportOk ==
    /\ pc = "start"
    /\ pc' = "imported"
    /\ UNCHANGED <<verts, dimensions, world_mat, min_z, char_type, rig, mode,
                   bones, last, skinned, exported, ret>>

\* lines 24-27: no mesh among the selected objects
NoMesh ==
    /\ pc = "imported"
    /\ pc' = "done"
    /\ ret' = None
    /\ UNCHANGED <<verts, dimensions, world_mat, min_z, char_type, rig, mode,
                   bones, last, skinned, exported>>

\* lines 24-48: the first mesh is taken, its rotation and scale applied, its
\* dimensions and world-coordinate vertices read
SelectMesh ==
    /\ pc = "imported"
    /\ \E V \in Meshes, t \in Locs :
          \E d \in Dimensions(V) :
             /\ verts' = World(V, t)
             /\ world_mat' = t
             /\ dimensions' = d
    /\ pc' = "mesh"
    /\ UNCHANGED <<min_z, char_type, rig, mode, bones, last, skinned, exported, ret>>

\* lines 50-83
Classify ==
    /\ pc = "mesh"
    /\ min_z' = GroundLevel(verts)
    /\ char_type' = CharType(verts, GroundLevel(verts), height)
    /\ pc' = "classified"
    /\ UNCHANGED <<verts, dimensions, world_mat, rig, mode, bones, last, skinned,
                   exported, ret>>

\* lines 86-93
CreateArmature ==
    /\ pc = "classified"
    /\ rig' = TRUE
    /\ mode' = "EDIT"
    /\ pc' = "edit"
    /\ UNCHANGED <<verts, dimensions, world_mat, min_z, char_type, bones, last,
                   skinned, exported, ret>>

\* one create_bone call of lines 127-200
CreateBone ==
    /\ pc = "edit"
    /\ ~BuildDone(char_type, bones)
    /\ LET c == BranchCall(char_type, Len(bones) + 1, bones)
       IN  /\ bones' = create_bone(bones, c.name, c.head, c.tail, c.parent)
           /\ last' = [name |-> c.name, dup |-> c.name \in Names(bones),
                       len |-> Len(bones)]
    /\ UNCHANGED <<pc, verts, dimensions, world_mat, min_z, char_type, rig, mode,
                   skinned, exported, ret>>

\* line 208
ExitEditMode ==
    /\ pc = "edit"
    /\ BuildDone(char_type, bones)
    /\ mode' = "OBJECT"
    /\ pc' = "object"
    /\ UNCHANGED <<verts, dimensions, world_mat, min_z, char_type, rig, bones, last,
                   skinned, exported, ret>>

\* lines 212-220
ParentSet ==
    /\ pc = "object"
    /\ skinned' = TRUE
    /\ pc' = "skinned"
    /\ UNCHANGED <<verts, dimensions, world_mat, min_z, char_type, rig, mode, bones,
                   last, exported, ret>>

\* lines 222-224: the export, and the function ends without a return statement
Export ==
    /\ pc = "skinned"
    /\ exported' = TRUE
    /\ ret' = None
    /\ pc' = "done"
    /\ UNCHANGED <<verts, dimensions, world_mat, min_z, char_type, rig, mode, bones,
                   last, skinned>>

Next ==
    \/ ImportFails
    \/ ImportOk
    \/ NoMesh
    \/ SelectMesh
    \/ Classify
    \/ CreateArmature
    \/ CreateBone
    \/ ExitEditMode
    \/ ParentSet
    \/ Export

Spec == Init /\ [][Next]_vars

\* ------------------------------------------------- create_bone on its own
\* create_bone called with any name on the armature in edit mode, to see what
\* it does with a name that is taken (auto_rig_glb itself never passes one).

CallNames == {"Spine", "Spine.001", "Head"}
CallPoints == {<<0, 0, 0>>, <<0, 0, 100>>}

InitCB ==
    /\ pc = "edit"
    /\ verts = {}
    /\ dimensions = <<0, 0, 0>>
    /\ world_mat = <<0, 0, 0>>
    /\ min_z = 0
    /\ char_type = "Humanoid"
    /\ rig = TRUE
    /\ mode = "EDIT"
    /\ bones = <<>>
    /\ last = NoCall
    /\ skinned = FALSE
    /\ exported = FALSE
    /\ ret = "pending"

CreateAny ==
    /\ pc = "edit"
    /\ Len(bones) < MaxCalls
    /\ \E n \in CallNames, h \in CallPoints, t \in CallPoints,
          p \in Names(bones) \cup {None} :
          /\ bones' = create_bone(bones, n, h, t, p)
          /\ last' = [name |-> n, dup |-> n \in Names(bones), len |-> Len(bones)]
    /\ UNCHANGED <<pc, verts, dimensions, world_mat, min_z, char_type, rig, mode,
                   skinned, exported, ret>>

NextCB == CreateAny

SpecCB == InitCB /\ [][NextCB]_vars

\* ------------------------------------------------------------------ claims

\* Bone creation has ended: the armature exists and edit mode was left.
EndOfBoneCreation == rig /\ mode = "OBJECT"

\* A mesh was taken from the import (lines 28-29 were reached).
MeshChosen == pc \in {"mesh", "classified", "edit", "object", "skinned"} \/ exported

BoneNames == [i \in 1..Len(bones) |-> bones[i].name]

HumanoidNames ==
    <<"Spine", "Spine.001", "Spine.002", "Head", "upper_arm.L", "lower_arm.L",
      "upper_arm.R", "lower_arm.R", "hand.L", "hand.R", "thigh.L", "thigh.R",
      "shin.L", "shin.R", "foot.L", "foot.R">>

QuadrupedNames ==
    <<"Spine", "Neck", "Head", "upper_arm.L", "upper_arm.R", "lower_arm.L",
      "lower_arm.R", "front_foot.L", "front_foot.R", "thigh.L", "thigh.R",
      "shin.L", "shin.R", "hind_foot.L", "hind_foot.R">>

BoneNamed(n) == bones[CHOOSE i \in 1..Len(bones) : bones[i].name = n]

\* C1 as stated: when bone creation has ended, a Humanoid build has made
\* exactly 15 bones and a Quadruped build exactly 14.
C1_FifteenAndFourteen ==
    EndOfBoneCreation =>
        Len(bones) = (IF char_type = "Quadruped" THEN 14 ELSE 15)

\* C1 amended: when bone creation has ended, a Humanoid build has made exactly
\* the 16 bones of its topology and a Quadruped build exactly the 15 of its
\* own (no tail), in the fixed order and under pairwise distinct names.
C1_SixteenAndFifteen ==
    EndOfBoneCreation =>
        /\ BoneNames = (IF char_type = "Quadruped" THEN QuadrupedNames ELSE HumanoidNames)
        /\ Len(bones) = (IF char_type = "Quadruped" THEN 15 ELSE 16)
        /\ Cardinality(Names(bones)) = Len(bones)

C1_Witness ==
    /\ EndOfBoneCreation
    /\ char_type = "Quadruped"
    /\ Len(bones) = 15
    /\ width > 0

\* The foot band of C2, written from the claim: the vertices with
\* z <= groundLevel + 0.05 * height, on one side of x = 0.
FootBand(left) ==
    {v \in verts :
        /\ 100 * v[3] <= 100 * Min(Zs(verts)) + 5 * height
        /\ IF left THEN v[1] < 0 ELSE v[1] > 0}

\* C2: once classified, the result is Quadruped exactly when the foot band has
\* a vertex with x < 0 and one with x > 0 and the y-range of each side is
\* strictly greater than 0.3 times the y-range of all vertices; otherwise it
\* is Humanoid.
C2_ClassifyIff ==
    char_type # None =>
        /\ char_type \in {"Quadruped", "Humanoid"}
        /\ char_type = "Quadruped" <=>
              /\ verts # {}
              /\ FootBand(TRUE) # {}
              /\ FootBand(FALSE) # {}
              /\ 10 * Range(Ys(FootBand(TRUE))) > 3 * Range(Ys(verts))
              /\ 10 * Range(Ys(FootBand(FALSE))) > 3 * Range(Ys(verts))

\* Both sides populated, one side's spread exactly at the threshold.
C2_Witness ==
    /\ char_type = "Humanoid"
    /\ verts # {}
    /\ FootBand(TRUE) # {}
    /\ FootBand(FALSE) # {}
    /\ 10 * Range(Ys(FootBand(TRUE))) = 3 * Range(Ys(verts))
    /\ 10 * Range(Ys(FootBand(FALSE))) > 3 * Range(Ys(verts))
    /\ Range(Ys(verts)) > 0

\* C3: at every point of a build every bone with a parent names a bone created
\* strictly earlier in the same skeleton, and the only bone without a parent
\* is "Spine", the first one.
C3_ParentsFirst ==
    \A i \in 1..Len(bones) :
        IF bones[i].parent = None
        THEN i = 1 /\ bones[i].name = "Spine"
        ELSE \E j \in 1..(i - 1) : bones[j].name = bones[i].parent

C3_Witness ==
    /\ pc = "edit"
    /\ char_type = "Quadruped"
    /\ Len(bones) = 9
    /\ bones[9].parent = "lower_arm.R"

\* C4 as stated: for a mesh without vertices no body type is decided, no
\* skeleton is built and no skinning is performed.
C4_EmptyMeshRejected ==
    (MeshChosen /\ verts = {}) =>
        /\ char_type = None
        /\ ~rig
        /\ bones = <<>>
        /\ ~skinned

\* C4 amended: for a mesh without vertices nothing fails: the ground level is
\* 0, the mesh is classified Humanoid, the 16 humanoid create_bone calls are
\* made, and skinning and export are invoked.
C4_EmptyMeshIsHumanoid ==
    (MeshChosen /\ verts = {}) =>
        /\ pc # "mesh" => (min_z = 0 /\ char_type = "Humanoid")
        /\ EndOfBoneCreation => BoneNames = HumanoidNames
        /\ pc = "done" => (skinned /\ exported)

C4_Witness ==
    /\ MeshChosen
    /\ verts = {}
    /\ pc = "done"
    /\ skinned
    /\ Len(bones) = 16
    /\ height = 2

C6_ReturnsArmature ==
    pc = "done" =>
        IF rig /\ skinned /\ exported THEN ret = "AutoRigArmature" ELSE ret = None

\* C7: in a Humanoid build with height > 0, Spine, Spine.001, Spine.002 and
\* Head form a vertical chain going up: each is parented to the previous one
\* and starts at its tail, all share the pelvis x and y, and each tail is
\* strictly above its own head.
C7_SpineChainGoesUp ==
    (EndOfBoneCreation /\ char_type = "Humanoid" /\ height > 0) =>
        /\ bones[1].parent = None
        /\ \A i \in 2..4 :
              /\ bones[i].parent = bones[i - 1].name
              /\ bones[i].head = bones[i - 1].tail
        /\ \A i \in 1..4 :
              /\ bones[i].name = HumanoidNames[i]
              /\ bones[i].head[1] = pelvis_x /\ bones[i].head[2] = pelvis_y
              /\ bones[i].tail[1] = pelvis_x /\ bones[i].tail[2] = pelvis_y
              /\ bones[i].tail[3] > bones[i].head[3]

\* C8: in a Quadruped build the Head starts at the Neck's tail and ends at the
\* top-centre of the mesh, its tail built from the mesh centre, the ground
\* level and fractions of the dimensions only, and the Neck's tail z is 80% of
\* the Head's tail z.
C8_QuadrupedHeadAtTopCentre ==
    (EndOfBoneCreation /\ char_type = "Quadruped") =>
        /\ BoneNamed("Head").head = BoneNamed("Neck").tail
        /\ BoneNamed("Head").parent = "Neck"
        /\ BoneNamed("Head").tail = <<pelvis_x, pelvis_y, max_bb_world[3]>>
        /\ 100 * BoneNamed("Neck").tail[3] = 80 * BoneNamed("Head").tail[3]

\* The limb bones of both topologies, each ".L" name with its ".R" name.
SidePairs ==
    {<<"upper_arm.L", "upper_arm.R">>, <<"lower_arm.L", "lower_arm.R">>,
     <<"hand.L", "hand.R">>, <<"thigh.L", "thigh.R">>, <<"shin.L", "shin.R">>,
     <<"foot.L", "foot.R">>, <<"front_foot.L", "front_foot.R">>,
     <<"hind_foot.L", "hind_foot.R">>}

Unsided == {"Spine", "Spine.001", "Spine.002", "Neck", "Head"}

MirrorName(n) ==
    IF \E pr \in SidePairs : pr[1] = n THEN (CHOOSE pr \in SidePairs : pr[1] = n)[2]
    ELSE IF \E pr \in SidePairs : pr[2] = n THEN (CHOOSE pr \in SidePairs : pr[2] = n)[1]
    ELSE n

MirrorPoint(v) == <<2 * pelvis_x - v[1], v[2], v[3]>>

\* C9: in both topologies every ".L" limb bone lies at x >= the mesh-centre x
\* (pelvis_x) and every ".R" limb bone at x <= it, and once both bones of a
\* pair exist the ".L" one is the mirror image of the ".R" one about
\* x = pelvis_x, with the mirrored parent.
C9_LeftIsPlusX ==
    /\ Names(bones) \subseteq
          Unsided \cup {pr[1] : pr \in SidePairs} \cup {pr[2] : pr \in SidePairs}
    /\ \A pr \in SidePairs :
          /\ pr[1] \in Names(bones) =>
                /\ BoneNamed(pr[1]).head[1] >= pelvis_x
                /\ BoneNamed(pr[1]).tail[1] >= pelvis_x
          /\ pr[2] \in Names(bones) =>
                /\ BoneNamed(pr[2]).head[1] <= pelvis_x
                /\ BoneNamed(pr[2]).tail[1] <= pelvis_x
          /\ (pr[1] \in Names(bones) /\ pr[2] \in Names(bones)) =>
                /\ BoneNamed(pr[1]).head = MirrorPoint(BoneNamed(pr[2]).head)
                /\ BoneNamed(pr[1]).tail = MirrorPoint(BoneNamed(pr[2]).tail)
                /\ BoneNamed(pr[1]).parent = MirrorName(BoneNamed(pr[2]).parent)

C9_Witness ==
    /\ EndOfBoneCreation
    /\ char_type = "Humanoid"
    /\ width = 2
    /\ world_mat[1] = 1
    /\ BoneNamed("hand.L").head[1] = 200
    /\ BoneNamed("hand.R").head[1] = 0

\* C10, the part about single states: classification comes after the import,
\* the armature after classification, bones only in the armature, skinning
\* only after every bone of the topology exists and edit mode was left,
\* export only after skinning, and a run that ended without a mesh has no
\* armature, no bone, no skinning and no export.
C10_OrderInv ==
    /\ char_type # None => pc \notin {"start", "imported", "mesh"}
    /\ rig => char_type # None
    /\ (bones # <<>> \/ mode = "EDIT") => rig
    /\ skinned =>
          /\ mode = "OBJECT"
          /\ BoneNames = (IF char_type = "Quadruped" THEN QuadrupedNames ELSE HumanoidNames)
    /\ exported => skinned
    /\ (pc = "done" /\ char_type = None) =>
          (~rig /\ bones = <<>> /\ ~skinned /\ ~exported)
    /\ (pc = "done" /\ char_type # None) => exported

\* C10: the steps of every run occur in the order import, classification,
\* bone creation, skinning, export, and no bone is created or changed once
\* skinning has started.
C10_StepOrder ==
    /\ []C10_OrderInv
    /\ [][skinned' => bones' = bones]_vars

C10_Witness ==
    /\ pc = "done"
    /\ exported
    /\ skinned
    /\ char_type = "Quadruped"
    /\ Len(bones) = 15

====
